---- MODULE Spec2Model ----
(***************************************************************************)
(* Model of the fixed-capacity ring buffer of src/quant/rust/src/lib.rs    *)
(* (struct RingBuffer<T> and its PyO3 wrapper RingBufferI64).              *)
(*                                                                         *)
(* The Vec `data` is a function over 0..capacity-1, so that every index    *)
(* of the model is the index the Rust code uses.  A Vec returned to the    *)
(* caller is a TLA+ sequence (1-based).                                    *)
(***************************************************************************)
EXTENDS Integers, Sequences, FiniteSets

\* ---------------------------------------------------------------- bounds
MaxCap == 2        \* capacities 0..MaxCap are tried at construction
NumValues == 2     \* distinct element values pushed by the caller
MaxExt == 3        \* longest input of one extend call
MaxPushes == 5     \* pushes between two clears
MaxHeld == 1       \* calls made while the caller holds on to one returned Vec

Default == 0       \* i64::default(), the fill value of vec![T::default(); capacity]
Values == 1..NumValues

SeqsUpTo(n) == UNION {[1..k -> Values] : k \in 0..n}

Min(a, b) == IF a < b THEN a ELSE b

\* the last n elements of sequence s (all of s when it is shorter)
LastN(s, n) == SubSeq(s, Len(s) - Min(n, Len(s)) + 1, Len(s))

VARIABLES
    status,     \* "none" before the constructor ran, then "Ok" or "InvalidCapacity"
    inner,      \* RingBufferI64.inner : RingBuffer<i64> = [data, capacity, len, cursor]
    panicked,   \* TRUE once an index was out of bounds (Rust panics)
    ret,        \* the value returned by the last call
    snap,       \* a Vec returned by snapshot() that the caller kept
    heldFor,    \* number of calls made since the caller kept snap
    twin,       \* a second buffer that receives every extend as single pushes
    pending,    \* the values of the last extend not yet pushed to the twin
    requested,  \* history: the capacity passed to the constructor
    log,        \* history: values pushed since construction or the last clear
    everCleared,\* history: clear() was called at least once
    lastOp,     \* history: name of the last operation
    pre         \* history: `inner` as it was when the last operation began

vars == <<status, inner, panicked, ret, snap, heldFor, twin, pending, requested, log,
          everCleared, lastOp, pre>>

\* the placeholder held by `inner` while no buffer exists
Uninit == [data |-> <<>>, capacity |-> 0, len |-> 0, cursor |-> 0]

\* ------------------------------------------------------ RingBuffer<T>

\* mutant: the zero check of line 22 is missing
new_NoCheck(capacity) ==
    [ok |-> TRUE,
     value |-> [data |-> [i \in 0..(capacity - 1) |-> Default],
                capacity |-> capacity,
                len |-> 0,
                cursor |-> 0]]

\* RingBuffer::new, lines 21-31
new(capacity) ==
    IF capacity = 0
    THEN [ok |-> FALSE, value |-> Uninit]
    ELSE [ok |-> TRUE,
          value |-> [data |-> [i \in 0..(capacity - 1) |-> Default],
                     capacity |-> capacity,
                     len |-> 0,
                     cursor |-> 0]]

\* line 34: self.data[self.cursor] panics when the index is out of bounds
PushPanics(s) == s.cursor \notin DOMAIN s.data

\* mutant: len stops one short of capacity (line 39 compares len + 1)
push_LenLag(s, value) ==
    IF PushPanics(s) THEN s
    ELSE LET d == [s.data EXCEPT ![s.cursor] = value]
             c1 == s.cursor + 1
             c2 == IF c1 = s.capacity THEN 0 ELSE c1
             l2 == IF s.len + 1 < s.capacity THEN s.len + 1 ELSE s.len
         IN [data |-> d, capacity |-> s.capacity, len |-> l2, cursor |-> c2]

\* mutant: the wrap of lines 36-38 is missing
push_NoWrap(s, value) ==
    IF PushPanics(s) THEN s
    ELSE LET d == [s.data EXCEPT ![s.cursor] = value]
             c2 == s.cursor + 1
             l2 == IF s.len < s.capacity THEN s.len + 1 ELSE s.len
         IN [data |-> d, capacity |-> s.capacity, len |-> l2, cursor |-> c2]

\* mutant: line 36 tests cursor > capacity, so the wrap comes one push late
push_WrapLate(s, value) ==
    IF PushPanics(s) THEN s
    ELSE LET d == [s.data EXCEPT ![s.cursor] = value]
             c1 == s.cursor + 1
             c2 == IF c1 > s.capacity THEN 0 ELSE c1
             l2 == IF s.len < s.capacity THEN s.len + 1 ELSE s.len
         IN [data |-> d, capacity |-> s.capacity, len |-> l2, cursor |-> c2]

\* mutant: the cursor is advanced before the write of line 34
push_PreIncrement(s, value) ==
    IF PushPanics(s) THEN s
    ELSE LET c1 == s.cursor + 1
             c2 == IF c1 = s.capacity THEN 0 ELSE c1
             d == [s.data EXCEPT ![c2] = value]
             l2 == IF s.len < s.capacity THEN s.len + 1 ELSE s.len
         IN [data |-> d, capacity |-> s.capacity, len |-> l2, cursor |-> c2]

\* mutant: the guard of line 39 is missing, len grows with every push
push_LenAlways(s, value) ==
    IF PushPanics(s) THEN s
    ELSE LET d == [s.data EXCEPT ![s.cursor] = value]
             c1 == s.cursor + 1
             c2 == IF c1 = s.capacity THEN 0 ELSE c1
         IN [data |-> d, capacity |-> s.capacity, len |-> s.len + 1, cursor |-> c2]

\* RingBuffer::push, lines 33-42 (a panic at line 34 leaves self untouched)
push(s, value) ==
    IF PushPanics(s) THEN s
    ELSE LET d == [s.data EXCEPT ![s.cursor] = value]
             c1 == s.cursor + 1
             c2 == IF c1 = s.capacity THEN 0 ELSE c1
             l2 == IF s.len < s.capacity THEN s.len + 1 ELSE s.len
         IN [data |-> d, capacity |-> s.capacity, len |-> l2, cursor |-> c2]

RECURSIVE extend_from_slice(_, _)
RECURSIVE extend_from_slice_SkipEvicted(_, _)
RECURSIVE extend_from_slice_EmptyClears(_, _)

\* mutant: an empty input is taken as a request to empty the buffer
extend_from_slice_EmptyClears(s, values) ==
    IF values = <<>> THEN [s EXCEPT !.len = 0, !.cursor = 0]
    ELSE IF PushPanics(s) THEN s
    ELSE IF Len(values) = 1 THEN push(s, Head(values))
    ELSE extend_from_slice_EmptyClears(push(s, Head(values)), Tail(values))

\* mutant: input elements that the same call would evict again are not pushed
extend_from_slice_SkipEvicted(s, values) ==
    IF values = <<>> \/ PushPanics(s) THEN s
    ELSE IF Len(values) > s.capacity
         THEN extend_from_slice_SkipEvicted(s, Tail(values))
         ELSE extend_from_slice_SkipEvicted(push(s, Head(values)), Tail(values))

\* RingBuffer::extend_from_slice, lines 44-48: the for loop, stopped by a panic
extend_from_slice(s, values) ==
    IF values = <<>> \/ PushPanics(s) THEN s
    ELSE extend_from_slice(push(s, Head(values)), Tail(values))

RECURSIVE ExtendPanics(_, _)
ExtendPanics(s, values) ==
    /\ values # <<>>
    /\ \/ PushPanics(s)
       \/ ExtendPanics(push(s, Head(values)), Tail(values))

\* mutant: line 52 is missing, the cursor keeps its place
clear_LenOnly(s) == [s EXCEPT !.len = 0]

\* mutant: clear also refills the storage with the default value
clear_Zeroing(s) ==
    [s EXCEPT !.len = 0, !.cursor = 0, !.data = [i \in DOMAIN s.data |-> Default]]

\* mutant: line 51 is missing, len keeps its value
clear_CursorOnly(s) == [s EXCEPT !.cursor = 0]

\* RingBuffer::clear, lines 50-53
clear(s) == [s EXCEPT !.len = 0, !.cursor = 0]

\* RingBuffer::len, lines 55-57
len(s) == s.len

\* RingBuffer::is_full, lines 59-61
is_full(s) == s.len = s.capacity

\* mutant: the snapshot always starts at index 0
SnapStart_Zero(s) == 0

\* mutant: a full buffer is read from the slot after the cursor
SnapStart_Next(s) == IF s.len = s.capacity THEN (s.cursor + 1) % s.capacity ELSE 0

\* lines 68-72
SnapStart(s) == IF s.len = s.capacity THEN s.cursor ELSE 0

\* line 74 (evaluated only when capacity > 0)
Position(s, idx) == (SnapStart(s) + idx) % s.capacity

\* lines 74-75: remainder by zero or an index out of bounds panics
SnapshotPanics(s) ==
    /\ s.len > 0
    /\ \/ s.capacity = 0
       \/ \E idx \in 0..(s.len - 1) : Position(s, idx) \notin DOMAIN s.data

RECURSIVE SnapLoop_AllSlots(_, _, _)

\* mutant: the loop of line 73 runs over 0..capacity instead of 0..len
SnapLoop_AllSlots(s, idx, out) ==
    IF idx >= s.capacity THEN out
    ELSE SnapLoop_AllSlots(s, idx + 1, Append(out, s.data[(idx) % s.capacity]))

\* the loop of lines 73-76
RECURSIVE SnapLoop(_, _, _)
SnapLoop(s, idx, out) ==
    IF idx >= s.len THEN out
    ELSE SnapLoop(s, idx + 1, Append(out, s.data[Position(s, idx)]))

\* RingBuffer::snapshot_vec, lines 63-78
snapshot_vec(s) ==
    IF s.len = 0 \/ SnapshotPanics(s) THEN <<>>
    ELSE SnapLoop(s, 0, <<>>)

\* ------------------------------------------------------ return values

Unit == [kind |-> "unit"]
Usize(n) == [kind |-> "usize", val |-> n]
Bool(b) == [kind |-> "bool", val |-> b]

\* mutant: the caller is handed a view of the buffer's storage
ReturnVec_Borrowed(s) == [kind |-> "vec", owned |-> FALSE, items |-> snapshot_vec(s)]

\* snapshot_vec returns an owned Vec<T> filled element by element (lines 64, 75)
ReturnVec(s) == [kind |-> "vec", owned |-> TRUE, items |-> snapshot_vec(s)]

\* what the caller reads from a Vec v that a snapshot call returned
View(v) == IF v.owned THEN v.items ELSE snapshot_vec(inner)

\* ------------------------------------------------------------- Init

Init ==
    /\ status = "none"
    /\ inner = Uninit
    /\ panicked = FALSE
    /\ ret = Unit
    /\ snap = [kind |-> "none"]
    /\ heldFor = 0
    /\ twin = Uninit
    /\ pending = <<>>
    /\ requested = 0
    /\ log = <<>>
    /\ everCleared = FALSE
    /\ lastOp = "none"
    /\ pre = Uninit

\* a buffer exists, no call has panicked, and the twin has caught up
Live == status = "Ok" /\ ~panicked /\ pending = <<>>

\* the caller drops a kept Vec after MaxHeld further calls
MayHold == snap.kind = "vec" => heldFor < MaxHeld
Held == IF snap.kind = "vec" THEN heldFor + 1 ELSE heldFor

\* ---------------------------------------------------------- actions

\* RingBufferI64::new, lines 88-93
New(capacity) ==
    /\ status = "none"
    /\ LET r == new(capacity) IN
        /\ status' = IF r.ok THEN "Ok" ELSE "InvalidCapacity"
        /\ inner' = r.value
        /\ twin' = r.value
    /\ requested' = capacity
    /\ ret' = Unit
    /\ lastOp' = "new"
    /\ pre' = inner
    /\ UNCHANGED <<heldFor, panicked, snap, pending, log, everCleared>>

\* RingBufferI64::push, lines 95-97
Push(value) ==
    /\ Live
    /\ MayHold
    /\ heldFor' = Held
    /\ Len(log) < MaxPushes
    /\ panicked' = PushPanics(inner)
    /\ inner' = push(inner, value)
    /\ twin' = push(twin, value)
    /\ log' = Append(log, value)
    /\ ret' = Unit
    /\ lastOp' = "push"
    /\ pre' = inner
    /\ UNCHANGED <<status, snap, pending, requested, everCleared>>

\* RingBufferI64::extend, lines 99-101
Extend(values) ==
    /\ Live
    /\ MayHold
    /\ heldFor' = Held
    /\ Len(log) + Len(values) <= MaxPushes
    /\ panicked' = ExtendPanics(inner, values)
    /\ inner' = extend_from_slice(inner, values)
    /\ pending' = values
    /\ log' = log \o values
    /\ ret' = Unit
    /\ lastOp' = "extend"
    /\ pre' = inner
    /\ UNCHANGED <<status, snap, twin, requested, everCleared>>

\* RingBuffer::push on the twin, one element of the last extend at a time
TwinPush ==
    /\ status = "Ok" /\ ~panicked
    /\ pending # <<>>
    /\ twin' = push(twin, Head(pending))
    /\ pending' = Tail(pending)
    /\ lastOp' = "twin_push"
    /\ UNCHANGED <<heldFor, status, inner, panicked, ret, snap, requested, log, everCleared,
                   pre>>

\* RingBufferI64::clear, lines 103-105
Clear ==
    /\ Live
    /\ MayHold
    /\ heldFor' = Held
    /\ inner' = clear(inner)
    /\ twin' = clear(twin)
    /\ log' = <<>>
    /\ everCleared' = TRUE
    /\ ret' = Unit
    /\ lastOp' = "clear"
    /\ pre' = inner
    /\ UNCHANGED <<status, panicked, snap, pending, requested>>

\* mutant: snapshot() hands the contents over and empties the buffer
Snapshot_Drain ==
    /\ Live
    /\ panicked' = SnapshotPanics(inner)
    /\ ret' = ReturnVec(inner)
    /\ inner' = [inner EXCEPT !.len = 0, !.cursor = 0]
    /\ lastOp' = "snapshot"
    /\ pre' = inner
    /\ UNCHANGED <<heldFor, status, snap, twin, pending, requested, log, everCleared>>

\* RingBufferI64::snapshot, lines 122-124
Snapshot ==
    /\ Live
    /\ panicked' = SnapshotPanics(inner)
    /\ ret' = ReturnVec(inner)
    /\ lastOp' = "snapshot"
    /\ pre' = inner
    /\ UNCHANGED <<heldFor, status, inner, snap, twin, pending, requested, log, everCleared>>

\* mutant: iter() walks the storage in physical order
Iter_Physical ==
    /\ Live
    /\ panicked' = FALSE
    /\ ret' = [kind |-> "vec", owned |-> TRUE,
               items |-> [i \in 1..inner.len |-> inner.data[i - 1]]]
    /\ lastOp' = "iter"
    /\ pre' = inner
    /\ UNCHANGED <<heldFor, status, inner, snap, twin, pending, requested, log, everCleared>>

\* RingBufferI64::iter, lines 126-128
Iter ==
    /\ Live
    /\ panicked' = SnapshotPanics(inner)
    /\ ret' = ReturnVec(inner)
    /\ lastOp' = "iter"
    /\ pre' = inner
    /\ UNCHANGED <<heldFor, status, inner, snap, twin, pending, requested, log, everCleared>>

\* RingBufferI64::py_len, lines 107-110
PyLen ==
    /\ Live
    /\ ret' = Usize(len(inner))
    /\ lastOp' = "len"
    /\ pre' = inner
    /\ UNCHANGED <<heldFor, status, inner, panicked, snap, twin, pending, requested, log,
                   everCleared>>

\* RingBufferI64::capacity, lines 112-115
Capacity ==
    /\ Live
    /\ ret' = Usize(inner.capacity)
    /\ lastOp' = "capacity"
    /\ pre' = inner
    /\ UNCHANGED <<heldFor, status, inner, panicked, snap, twin, pending, requested, log,
                   everCleared>>

\* RingBufferI64::is_full, lines 117-120
IsFull ==
    /\ Live
    /\ ret' = Bool(is_full(inner))
    /\ lastOp' = "is_full"
    /\ pre' = inner
    /\ UNCHANGED <<heldFor, status, inner, panicked, snap, twin, pending, requested, log,
                   everCleared>>

\* the caller keeps the Vec that snapshot() just returned
Keep ==
    /\ Live
    /\ ret.kind = "vec"
    /\ snap' = ret
    /\ heldFor' = 0
    /\ ret' = Unit
    /\ lastOp' = "keep"
    /\ pre' = inner
    /\ UNCHANGED <<status, inner, panicked, twin, pending, requested, log,
                   everCleared>>

\* the caller drops the Vec it kept
Drop ==
    /\ Live
    /\ snap.kind = "vec"
    /\ snap' = [kind |-> "none"]
    /\ heldFor' = 0
    /\ ret' = Unit
    /\ lastOp' = "drop"
    /\ pre' = inner
    /\ UNCHANGED <<status, inner, panicked, twin, pending, requested, log,
                   everCleared>>

\* the caller overwrites element i-1 of the Vec it kept
MutateSnap(i, value) ==
    /\ Live
    /\ MayHold
    /\ heldFor' = Held
    /\ snap.kind = "vec"
    /\ i \in 1..Len(View(snap))
    /\ View(snap)[i] # value
    /\ IF snap.owned
       THEN /\ snap' = [snap EXCEPT !.items[i] = value]
            /\ inner' = inner
       ELSE /\ snap' = snap
            /\ inner' = [inner EXCEPT !.data[Position(inner, i - 1)] = value]
    /\ ret' = Unit
    /\ lastOp' = "mutate_snapshot"
    /\ pre' = inner
    /\ UNCHANGED <<status, panicked, twin, pending, requested, log, everCleared>>

\* the buffer and its accessors
Next ==
    \/ \E capacity \in 0..MaxCap : New(capacity)
    \/ \E value \in Values : Push(value)
    \/ \E values \in SeqsUpTo(MaxExt) : Extend(values)
    \/ TwinPush
    \/ Clear
    \/ Snapshot
    \/ Iter
    \/ PyLen
    \/ Capacity
    \/ IsFull

Spec == Init /\ [][Next]_vars

\* the buffer and a caller that keeps and changes the snapshots it was given
NextHold ==
    \/ \E capacity \in 0..MaxCap : New(capacity)
    \/ \E value \in Values : Push(value)
    \/ \E values \in SeqsUpTo(MaxExt) : Extend(values)
    \/ TwinPush
    \/ Clear
    \/ Snapshot
    \/ Keep
    \/ Drop
    \/ \E i \in 1..MaxCap, value \in Values : MutateSnap(i, value)

SpecHold == Init /\ [][NextHold]_vars

\* ------------------------------------------------------------ claims

\* the values the buffer should hold: the last capacity values of the log
Retained == LastN(log, inner.capacity)

\* C1: on a freshly constructed buffer (never cleared) of capacity C >= 1,
\* after N > C pushes length() = C, is_full() holds and snapshot() is exactly
\* the last C pushed values, oldest retained first.
C1_MoreThanCapacity ==
    (status = "Ok" /\ ~everCleared /\ Len(log) > inner.capacity) =>
        /\ len(inner) = inner.capacity
        /\ is_full(inner)
        /\ snapshot_vec(inner) = LastN(log, inner.capacity)

C1_Witness ==
    /\ status = "Ok" /\ ~everCleared /\ lastOp = "push"
    /\ inner.capacity >= 2
    /\ Len(log) > inner.capacity
    /\ inner.cursor # 0
    /\ snapshot_vec(inner) = LastN(log, inner.capacity)
    /\ snapshot_vec(inner) # log

\* C2: on a freshly constructed buffer (never cleared) of capacity C >= 1,
\* after N <= C pushes length() = N, is_full() = (N = C) and snapshot() is
\* the pushed values in push order.
C2_UpToCapacity ==
    (status = "Ok" /\ ~everCleared /\ Len(log) <= inner.capacity) =>
        /\ len(inner) = Len(log)
        /\ is_full(inner) = (Len(log) = inner.capacity)
        /\ snapshot_vec(inner) = log

C2_Witness ==
    /\ status = "Ok" /\ ~everCleared /\ lastOp = "push"
    /\ inner.capacity >= 2
    /\ Len(log) = inner.capacity
    /\ is_full(inner)
    /\ snapshot_vec(inner) = log
    /\ \E i, j \in 1..Len(log) : log[i] # log[j]

\* C3: extend(values) leaves the buffer in the state (data, len, cursor) that
\* one push per element, in order, leaves the twin in; the twin starts from
\* the state the buffer was in.  When the input is longer than the capacity
\* the snapshot is the last capacity input elements in their order.
C3_ExtendIsPushEach ==
    /\ (status = "Ok" /\ lastOp = "extend") =>
            /\ twin = pre
            /\ Len(pending) > inner.capacity =>
                    snapshot_vec(inner) = LastN(pending, inner.capacity)
    /\ (status = "Ok" /\ pending = <<>>) => inner = twin

C3_Witness ==
    /\ status = "Ok" /\ lastOp = "twin_push" /\ pending = <<>>
    /\ pre.len > 0 /\ pre.len < pre.capacity
    /\ Len(log) - pre.len > inner.capacity
    /\ inner = twin
    /\ inner.len = inner.capacity
    /\ inner.data # pre.data

\* C4: the constructor called with capacity 0 fails with InvalidCapacity and
\* there is no buffer; called with a capacity >= 1 it succeeds with len = 0,
\* cursor = 0, is_full() false and exactly capacity slots holding the default.
C4_Construction ==
    /\ status = "InvalidCapacity" => (requested = 0 /\ inner = Uninit /\ lastOp = "new")
    /\ (lastOp = "new" /\ requested = 0) => status = "InvalidCapacity"
    /\ (lastOp = "new" /\ requested >= 1) =>
            /\ status = "Ok"
            /\ inner.capacity = requested
            /\ inner.len = 0
            /\ inner.cursor = 0
            /\ ~is_full(inner)
            /\ DOMAIN inner.data = 0..(requested - 1)
            /\ \A i \in DOMAIN inner.data : inner.data[i] = Default

C4_Witness == lastOp = "new" /\ requested = 0 /\ status = "InvalidCapacity"

\* C5: in every state of a constructed buffer 0 <= len <= capacity and
\* 0 <= cursor < capacity.
C5_Ranges ==
    status = "Ok" =>
        /\ 0 <= inner.len /\ inner.len <= inner.capacity
        /\ 0 <= inner.cursor /\ inner.cursor < inner.capacity

C5_Witness ==
    /\ status = "Ok" /\ everCleared /\ lastOp = "push"
    /\ inner.capacity >= 2
    /\ pre.cursor = inner.capacity - 1
    /\ inner.cursor = 0
    /\ inner.len = inner.capacity

\* C6: right after clear(), from any state, len = 0 and cursor = 0,
\* snapshot() is empty, length() = 0 and is_full() is false.
C6_Clear ==
    (status = "Ok" /\ lastOp = "clear") =>
        /\ inner.len = 0
        /\ inner.cursor = 0
        /\ snapshot_vec(inner) = <<>>
        /\ len(inner) = 0
        /\ ~is_full(inner)

C6_Witness ==
    /\ status = "Ok" /\ lastOp = "clear"
    /\ pre.len = pre.capacity /\ pre.cursor # 0
    /\ inner.len = 0 /\ inner.cursor = 0
    /\ snapshot_vec(inner) = <<>>

\* C7: when len = capacity the oldest retained value is at index cursor; when
\* len < capacity, cursor = len and the retained values are data[0..len) in
\* push order (also after a clear).
C7_OldestPosition ==
    status = "Ok" =>
        IF inner.len = inner.capacity
        THEN /\ Len(log) >= inner.capacity
             /\ inner.data[inner.cursor] = Retained[1]
        ELSE /\ inner.cursor = inner.len
             /\ Len(log) = inner.len
             /\ \A i \in 0..(inner.len - 1) : inner.data[i] = log[i + 1]

C7_Witness ==
    /\ status = "Ok" /\ everCleared
    /\ inner.capacity >= 2
    /\ inner.len = inner.capacity
    /\ inner.cursor # 0
    /\ inner.data[inner.cursor] = Retained[1]
    /\ inner.data[0] # Retained[1]

\* C8: no operation on a constructed buffer panics: the index used by push
\* (cursor) and every index used by snapshot ((start + idx) % capacity) lie
\* in 0..capacity-1.
C8_NoPanic ==
    /\ ~panicked
    /\ status = "Ok" =>
            /\ ~PushPanics(inner)
            /\ ~SnapshotPanics(inner)
            /\ inner.capacity > 0
            /\ inner.cursor \in 0..(inner.capacity - 1)
            /\ \A idx \in 0..(inner.len - 1) :
                    Position(inner, idx) \in 0..(inner.capacity - 1)

C8_Witness ==
    /\ status = "Ok" /\ lastOp = "snapshot" /\ ~panicked
    /\ inner.len = inner.capacity
    /\ inner.cursor = inner.capacity - 1
    /\ inner.capacity >= 2
    /\ Len(log) > inner.capacity
    /\ ret.kind = "vec" /\ Len(ret.items) = inner.capacity

C10_CountMonotone ==
    /\ (status = "Ok" /\ lastOp = "push") =>
            inner.len = (IF pre.len < pre.capacity THEN pre.len + 1 ELSE pre.capacity)
    /\ (status = "Ok" /\ lastOp = "extend") =>
            /\ inner.len >= pre.len
            /\ inner.len = Min(pre.len + Len(pending), pre.capacity)
            /\ pre.len = pre.capacity => inner.len = pre.capacity
    /\ (status = "Ok" /\ inner.len < pre.len) => lastOp = "clear"

C10_Witness ==
    /\ status = "Ok" /\ lastOp = "push"
    /\ pre.len = pre.capacity
    /\ inner.len = inner.capacity
    /\ inner.capacity >= 2
    /\ inner.data # pre.data

\* the value handed to the last push
Pushed == log[Len(log)]

\* C11: capacity and the length of data stay what the constructor made them;
\* a push writes the slot at the cursor it started with, leaves every other
\* slot as it was, and sets cursor to (cursor + 1) mod capacity.
C11_PushWritesOneSlot ==
    /\ status = "Ok" =>
            /\ inner.capacity = requested
            /\ DOMAIN inner.data = 0..(requested - 1)
    /\ (status = "Ok" /\ lastOp = "push") =>
            /\ inner.data[pre.cursor] = Pushed
            /\ \A i \in DOMAIN pre.data :
                    i # pre.cursor => inner.data[i] = pre.data[i]
            /\ inner.cursor = (pre.cursor + 1) % pre.capacity

C11_Witness ==
    /\ status = "Ok" /\ lastOp = "push"
    /\ inner.capacity >= 2
    /\ pre.len = pre.capacity
    /\ pre.cursor = pre.capacity - 1
    /\ inner.cursor = 0
    /\ pre.data[pre.cursor] # Pushed
    /\ inner.data[pre.cursor] = Pushed
    /\ Cardinality({i \in DOMAIN inner.data : inner.data[i] # pre.data[i]}) = 1

\* C12: clear() changes len and cursor only: every slot of data and the
\* capacity are after clear() what they were before it.
C12_ClearKeepsStorage ==
    (status = "Ok" /\ lastOp = "clear") =>
        /\ inner.data = pre.data
        /\ inner.capacity = pre.capacity

C12_Witness ==
    /\ status = "Ok" /\ lastOp = "clear"
    /\ pre.len = pre.capacity /\ pre.cursor # 0
    /\ inner.len = 0
    /\ inner.data = pre.data
    /\ \A i \in DOMAIN inner.data : inner.data[i] # Default

\* C13: extend with an empty input changes nothing: data, len, cursor and
\* capacity are what they were, from any state.
C13_ExtendEmptyNoOp ==
    (status = "Ok" /\ lastOp = "extend" /\ pending = <<>>) =>
        /\ inner = pre
        /\ inner = twin
        /\ ~panicked

C13_Witness ==
    /\ status = "Ok" /\ lastOp = "extend" /\ pending = <<>>
    /\ pre.len = pre.capacity /\ pre.cursor # 0
    /\ inner = pre

\* C14: with capacity 1 the cursor is always 0, the first push fills the
\* buffer, and after any number of pushes snapshot() is the one-element
\* sequence of the value pushed last, with length() = 1.
C14_CapacityOne ==
    (status = "Ok" /\ inner.capacity = 1) =>
        /\ inner.cursor = 0
        /\ Len(log) >= 1 =>
                /\ is_full(inner)
                /\ len(inner) = 1
                /\ snapshot_vec(inner) = <<Pushed>>

C14_Witness ==
    /\ status = "Ok" /\ inner.capacity = 1 /\ lastOp = "push"
    /\ Len(log) = 2
    /\ log[1] # log[2]
    /\ snapshot_vec(inner) = <<log[2]>>
    /\ len(inner) = 1

\* the calls that only read the buffer
Observers == {"snapshot", "iter", "len", "capacity", "is_full"}

\* C15: iter() returns the sequence snapshot() returns, with length() many
\* elements: in every state its result is the snapshot of the buffer, and
\* called right after snapshot() it returns what snapshot() returned.
C15_IterIsSnapshot ==
    [][ /\ lastOp' = "iter" =>
                /\ ret'.kind = "vec"
                /\ ret'.items = snapshot_vec(inner')
                /\ Len(ret'.items) = len(inner')
        /\ lastOp' = "snapshot" =>
                /\ ret'.kind = "vec"
                /\ Len(ret'.items) = len(inner')
        /\ (lastOp = "snapshot" /\ lastOp' = "iter") => ret' = ret ]_vars

C15_Witness ==
    /\ status = "Ok" /\ lastOp = "iter" /\ ~panicked
    /\ inner.len = inner.capacity /\ inner.cursor # 0
    /\ ret.kind = "vec"
    /\ ret.items = LastN(log, inner.capacity)
    /\ ret.items[1] # inner.data[0]

\* C16: after any interleaving of push, extend and clear, snapshot() is the
\* last min(k, capacity) values pushed since the last clear (or since
\* construction), in push order; no value from before a clear and no
\* default-valued slot shows up in it.
C16_SnapshotIsRecentPushes ==
    status = "Ok" =>
        /\ snapshot_vec(inner) = LastN(log, inner.capacity)
        /\ Len(snapshot_vec(inner)) = Min(Len(log), inner.capacity)
        /\ \A i \in 1..Len(snapshot_vec(inner)) : snapshot_vec(inner)[i] # Default

C16_Witness ==
    /\ status = "Ok" /\ everCleared /\ lastOp = "push"
    /\ inner.len > 0 /\ inner.len < inner.capacity
    /\ inner.data[inner.len] \notin {Default, inner.data[0]}
    /\ snapshot_vec(inner) = log

\* C17: a push slides the window: when the buffer was not full the snapshot
\* is the old snapshot with the value appended; when it was full it is the
\* old snapshot without its first element, with the value appended.
C17_PushSlidesWindow ==
    (status = "Ok" /\ lastOp = "push") =>
        snapshot_vec(inner) =
            IF pre.len < pre.capacity
            THEN Append(snapshot_vec(pre), Pushed)
            ELSE Append(Tail(snapshot_vec(pre)), Pushed)

C17_Witness ==
    /\ status = "Ok" /\ lastOp = "push"
    /\ inner.capacity >= 2
    /\ pre.len = pre.capacity /\ pre.cursor # 0
    /\ snapshot_vec(pre)[1] # snapshot_vec(pre)[2]
    /\ snapshot_vec(inner) = Append(Tail(snapshot_vec(pre)), Pushed)
    /\ snapshot_vec(inner) # snapshot_vec(pre)

\* C18: when len = capacity, snapshot() has capacity elements and the one at
\* logical position i is data[(cursor + i) mod capacity]; this covers the
\* state after exactly capacity pushes, where cursor is back at 0.
C18_FullSnapshotMapping ==
    (status = "Ok" /\ inner.len = inner.capacity) =>
        /\ Len(snapshot_vec(inner)) = inner.capacity
        /\ \A i \in 0..(inner.capacity - 1) :
                snapshot_vec(inner)[i + 1] =
                    inner.data[(inner.cursor + i) % inner.capacity]

C18_Witness ==
    /\ status = "Ok" /\ ~everCleared /\ lastOp = "push"
    /\ inner.capacity >= 2
    /\ Len(log) = inner.capacity
    /\ inner.len = inner.capacity
    /\ inner.cursor = 0
    /\ inner.data[0] # inner.data[1]
    /\ snapshot_vec(inner) = log

\* C19: cursor is the number of pushes since the last clear (or since
\* construction) modulo capacity, and len is the smaller of that number and
\* capacity.
C19_CursorAndLenFromPushCount ==
    status = "Ok" =>
        /\ inner.cursor = Len(log) % inner.capacity
        /\ inner.len = Min(Len(log), inner.capacity)

C19_Witness ==
    /\ status = "Ok" /\ everCleared /\ lastOp = "extend"
    /\ inner.capacity >= 2
    /\ Len(log) > inner.capacity
    /\ inner.cursor = 1
    /\ inner.len = inner.capacity

\* C20: snapshot(), iter(), length(), capacity() and is_full() leave data,
\* len, cursor and capacity as they were, and a snapshot() called right
\* after a snapshot() returns the same sequence.
C20_ObserversReadOnly ==
    [][ /\ lastOp' \in Observers => inner' = inner
        /\ (lastOp = "snapshot" /\ lastOp' = "snapshot") => ret' = ret ]_vars

C20_Witness ==
    /\ status = "Ok" /\ lastOp = "snapshot" /\ ~panicked
    /\ inner = pre
    /\ inner.len = inner.capacity /\ inner.cursor # 0
    /\ ret.kind = "vec"
    /\ Len(ret.items) = inner.capacity
    /\ ret.items[1] # ret.items[2]

====
